---- MODULE Spec2Model ----
(***************************************************************************)
(* Camera string codec of the Render workbench: set_cam_from_coin_string,  *)
(* get_cam_from_coin_string and get_coin_string_from_cam, in the two       *)
(* versions the repository holds (camera.py and Render/camera.py).         *)
(*                                                                         *)
(* Texts are strings; shlex.split, str.split, the header slice, float()    *)
(* and the float formatting of the f-strings are computed character by     *)
(* character.  A Python float is a decimal floating point number of        *)
(* Precision significant digits, [m |-> mantissa, e |-> exponent], value   *)
(* m * 10^e: every arithmetic result is rounded to the nearest such        *)
(* number, as a double is rounded to 53 bits.                              *)
(***************************************************************************)
EXTENDS Integers, Sequences, FiniteSets, TLC

VARIABLES module, cam, result, calls, params, console, process, call, scene

\* the camera codec's state: the module version in use, the camera record, the
\* outcome of the last call and the number of calls made
camera == <<module, cam, result, calls>>

\* the Cycles renderer's state: the user parameters of the Render workbench,
\* what the last render call printed on the console, the external processes
\* it started, the last call of the renderer module with its position and
\* outcome, and the objects the caller handed to it
cycles == <<params, console, process, call, scene>>

vars == <<module, cam, result, calls, params, console, process, call, scene>>

(***************************************************************************)
(* Floats                                                                  *)
(***************************************************************************)

\* the element of a set of one element
Value(S) == CHOOSE x \in S : TRUE

\* F of the value of x, x worked out once
Let(x, F(_)) == Value({F(v) : v \in {x}})

\* significant decimal digits of a modelled float
Precision == 3

Abs(n) == IF n < 0 THEN -n ELSE n

Sign(n) == IF n < 0 THEN -1 ELSE 1

RECURSIVE Pow10(_)
Pow10(n) == IF n <= 0 THEN 1 ELSE 10 * Pow10(n - 1)

\* n / d rounded to the nearest integer (n >= 0, d > 0)
RoundDiv(n, d) == (2 * n + d) \div (2 * d)

\* a / d >= 10^k
Ge10(a, d, k) == IF k >= 0 THEN a >= d * Pow10(k) ELSE a * Pow10(-k) >= d

\* the exponent e with 10^(Precision-1) <= (a/d) / 10^e < 10^Precision (a > 0)
RECURSIVE Exponent(_, _, _)
Exponent(a, d, e) ==
    IF Ge10(a, d, e + Precision) THEN Exponent(a, d, e + 1)
    ELSE IF ~Ge10(a, d, e + Precision - 1) THEN Exponent(a, d, e - 1)
    ELSE e

Zero == [m |-> 0, e |-> 0]

\* a / d / 10^e rounded to the nearest integer
Mantissa(a, d, e) ==
    IF e >= 0 THEN RoundDiv(a, d * Pow10(e)) ELSE RoundDiv(a * Pow10(-e), d)

\* the float of sign, mantissa and exponent; a mantissa rounded up to
\* 10^Precision takes the next exponent
Rounded(sign, m, e) ==
    IF m = Pow10(Precision) THEN [m |-> sign * Pow10(Precision - 1), e |-> e + 1]
    ELSE [m |-> sign * m, e |-> e]

\* the float nearest to the rational num / den (den > 0)
FloatOf(num, den) ==
    IF num = 0 THEN Zero
    ELSE Let(Exponent(Abs(num), den, 0),
             LAMBDA e : Rounded(Sign(num), Mantissa(Abs(num), den, e), e))

\* the float nearest to num / den * 10^e
Scaled(num, den, e) ==
    IF num = 0 THEN Zero
    ELSE Let(FloatOf(num, den), LAMBDA f : [m |-> f.m, e |-> f.e + e])

\* a whole number as a float
Float(n) == FloatOf(n, 1)

\* pi as the fraction PiNum / PiDen
PiNum == 355
PiDen == 113

\* math.degrees: x * 180 / pi
degrees(x) == Scaled(x.m * 180 * PiDen, PiNum, x.e)

\* math.radians: x * pi / 180
radians(x) == Scaled(x.m * PiNum, 180 * PiDen, x.e)

\* -x
Neg(x) == [m |-> -x.m, e |-> x.e]

\* x * y
Mul(x, y) == Scaled(x.m * y.m, 1, x.e + y.e)

\* x + y: a term too small to reach the last digit of the other is lost
Add(x, y) ==
    IF x.m = 0 THEN y
    ELSE IF y.m = 0 THEN x
    ELSE IF x.e - y.e > Precision + 1 THEN x
    ELSE IF y.e - x.e > Precision + 1 THEN y
    ELSE IF x.e >= y.e THEN Scaled(x.m * Pow10(x.e - y.e) + y.m, 1, y.e)
    ELSE Scaled(x.m + y.m * Pow10(y.e - x.e), 1, x.e)

\* x - y
Sub(x, y) == Add(x, Neg(y))

\* x < y
Less(x, y) == Sub(x, y).m < 0

\* x / y, y not zero
Div(x, y) ==
    Scaled(Sign(y.m) * x.m * Pow10(Precision), Abs(y.m), x.e - y.e - Precision)

\* the largest r in lo..hi with r * r <= n
RECURSIVE IsqrtIn(_, _, _)
IsqrtIn(n, lo, hi) ==
    IF lo = hi THEN lo
    ELSE Let((lo + hi + 1) \div 2,
             LAMBDA mid : IF mid * mid <= n THEN IsqrtIn(n, mid, hi)
                          ELSE IsqrtIn(n, lo, mid - 1))

\* the integer square root of n < 2^31
Isqrt(n) == IsqrtIn(n, 0, 46340)

\* the square root of m * 10^e, e even, worked out with two more digits
SqrtEven(m, e) == Scaled(Isqrt(m * Pow10(4)), 1, (e \div 2) - 2)

\* math.sqrt(x), x >= 0
Sqrt(x) ==
    IF x.m = 0 THEN Zero
    ELSE IF x.e % 2 = 0 THEN SqrtEven(x.m, x.e)
    ELSE SqrtEven(x.m * 10, x.e - 1)

(***************************************************************************)
(* Characters and strings                                                  *)
(***************************************************************************)

Char(s, i) == SubSeq(s, i, i)

Digits == {"0", "1", "2", "3", "4", "5", "6", "7", "8", "9"}

DigitVal(c) == CHOOSE d \in 0..9 : SubSeq("0123456789", d + 1, d + 1) = c

RECURSIVE AllDigits(_, _)
AllDigits(s, i) == i > Len(s) \/ (Char(s, i) \in Digits /\ AllDigits(s, i + 1))

\* the number a string of digits denotes ("" denotes 0)
RECURSIVE DigitsValue(_, _, _)
DigitsValue(s, i, acc) ==
    IF i > Len(s) THEN acc
    ELSE DigitsValue(s, i + 1, 10 * acc + DigitVal(Char(s, i)))

\* position of the first "." of s, 0 when there is none
RECURSIVE DotAt(_, _)
DotAt(s, i) ==
    IF i > Len(s) THEN 0 ELSE IF Char(s, i) = "." THEN i ELSE DotAt(s, i + 1)

RECURSIVE Zeros(_)
Zeros(n) == IF n <= 0 THEN "" ELSE "0" \o Zeros(n - 1)

\* the token without its sign
Unsigned(tok) ==
    IF Len(tok) > 0 /\ Char(tok, 1) \in {"-", "+"} THEN SubSeq(tok, 2, Len(tok)) ELSE tok

\* the digits before and after the "." at position dot (0: no ".")
IntPart(body, dot) == IF dot = 0 THEN body ELSE SubSeq(body, 1, dot - 1)

FracPart(body, dot) == IF dot = 0 THEN "" ELSE SubSeq(body, dot + 1, Len(body))

\* the float of the digits ipart.fpart, negated for neg
ParseDigits(ipart, fpart, neg) ==
    IF AllDigits(ipart, 1) /\ AllDigits(fpart, 1) /\ Len(ipart) + Len(fpart) > 0
    THEN [ok  |-> TRUE,
          val |-> FloatOf((IF neg THEN -1 ELSE 1) * DigitsValue(ipart \o fpart, 1, 0),
                          Pow10(Len(fpart)))]
    ELSE [ok |-> FALSE, val |-> Zero]

\* float(token): [ok, val]; ok is FALSE where Python raises ValueError.
\* Decimal notation: [+-] digits [. digits], at least one digit.
ParseFloat(tok) ==
    Let(DotAt(Unsigned(tok), 1),
        LAMBDA dot : ParseDigits(IntPart(Unsigned(tok), dot), FracPart(Unsigned(tok), dot),
                                 Len(tok) > 0 /\ Char(tok, 1) = "-"))

\* mantissa and exponent with the mantissa's trailing zeros moved to the exponent
RECURSIVE Strip(_)
Strip(x) ==
    IF x.m # 0 /\ x.m % 10 = 0 THEN Strip([m |-> x.m \div 10, e |-> x.e + 1])
    ELSE x

\* the decimal notation of sign sg, digits ds and exponent e
Decimal(sg, ds, e) ==
    IF e >= 0 THEN sg \o ds \o Zeros(e) \o ".0"
    ELSE IF Len(ds) > -e
         THEN sg \o SubSeq(ds, 1, Len(ds) + e) \o "." \o SubSeq(ds, Len(ds) + e + 1, Len(ds))
         ELSE sg \o "0." \o Zeros(-e - Len(ds)) \o ds

\* str(float) / repr(float), the text an f-string puts for a float
Repr(x) ==
    Let(Strip(x),
        LAMBDA s : Decimal(IF s.m < 0 THEN "-" ELSE "", ToString(Abs(s.m)), s.e))

(***************************************************************************)
(* Tokens: camstr.split("\n") and shlex.split(x, comments=True)            *)
(***************************************************************************)

\* shlex.whitespace
Whitespace == {" ", "\t", "\r", "\n"}

\* shlex.commenters
Commenters == {"#"}

\* a function on 1..n as the sequence of its values
List(f) == SubSeq(f, 1, Len(f))

\* the positions of s whose character is in the set, in increasing order
Positions(s, chars) ==
    SelectSeq([i \in 1..Len(s) |-> i], LAMBDA i : Char(s, i) \in chars)

\* the pieces of s between the positions nl
Pieces(s, nl) ==
    List([k \in 1..(Len(nl) + 1) |->
             SubSeq(s, IF k = 1 THEN 1 ELSE nl[k - 1] + 1,
                       IF k = Len(nl) + 1 THEN Len(s) ELSE nl[k] - 1)])

\* str.split("\n"): the pieces of s between its newlines, empty ones included
SplitLines(s) == Let(Positions(s, {"\n"}), LAMBDA nl : Pieces(s, nl))

\* the non-empty pieces of line between the positions gaps
Words(line, gaps) ==
    Let(SelectSeq([k \in 1..(Len(gaps) - 1) |-> k], LAMBDA k : gaps[k] + 1 < gaps[k + 1]),
        LAMBDA words :
            List([k \in 1..Len(words) |->
                     SubSeq(line, gaps[words[k]] + 1, gaps[words[k] + 1] - 1)]))

\* the maximal runs of characters of line that are not whitespace
SplitWords(line) ==
    Let(<<0>> \o Positions(line, Whitespace) \o <<Len(line) + 1>>,
        LAMBDA gaps : Words(line, gaps))

\* shlex.split(x, comments=True) of a line without quotes or escapes: the
\* first commenter ends the line (also in the middle of a word), and the
\* words are the maximal runs of characters that are not whitespace
ShlexSplit(x) ==
    Let(Positions(x, Commenters),
        LAMBDA hash :
            SplitWords(SubSeq(x, 1, IF hash = <<>> THEN Len(x) ELSE hash[1] - 1)))

\* camdata: the token lists of the lines of camstr, the empty ones dropped
CamData(camstr) ==
    Let(SplitLines(camstr),
        LAMBDA lines :
            SelectSeq(List([k \in 1..Len(lines) |-> ShlexSplit(lines[k])]),
                      LAMBDA y : y # <<>>))

\* camdict = {y[0]: y[1:] for y in camdata}: a later line replaces an earlier
\* one of the same key.  HasKey is `key in camdict`, Values is camdict[key].
Lines(camdata, key) == SelectSeq(camdata, LAMBDA y : y[1] = key)

HasKey(camdata, key) == Lines(camdata, key) # <<>>

\* a variant of the mapping in which the first line of a key is the one kept
FirstValues(camdata, key) == Tail(Lines(camdata, key)[1])

Values(camdata, key) ==
    LET lines == Lines(camdata, key)
    IN  Tail(lines[Len(lines)])

\* x[0:-6]
StripLast6(x) == IF Len(x) <= 6 THEN "" ELSE SubSeq(x, 1, Len(x) - 6)

(***************************************************************************)
(* Exceptions                                                              *)
(***************************************************************************)

NoError == [type |-> "", msg |-> "", field |-> ""]

AssertionError(msg) == [type |-> "AssertionError", msg |-> msg, field |-> ""]

KeyError(key) == [type |-> "KeyError", msg |-> "", field |-> key]

IndexError == [type |-> "IndexError", msg |-> "list index out of range", field |-> ""]

AttributeError(name) == [type |-> "AttributeError", msg |-> "", field |-> name]

\* ValueError of float() and of the host's Vector and enumeration properties
ValueError(msg) == [type |-> "ValueError", msg |-> msg, field |-> ""]

\* raise ValueError(f"Missing field in camera string: {err}") from a KeyError
MissingField(err) ==
    [type |-> "ValueError", msg |-> "Missing field in camera string", field |-> err.field]

(***************************************************************************)
(* The camera record                                                       *)
(***************************************************************************)

PROJECTIONS == {"Perspective", "Orthographic"}

VIEWPORTMAPPINGENUM ==
    <<"CROP_VIEWPORT_FILL_FRAME", "CROP_VIEWPORT_LINE_FRAME",
      "CROP_VIEWPORT_NO_FRAME", "ADJUST_CAMERA", "LEAVE_ALONE">>

ViewportMappings == {VIEWPORTMAPPINGENUM[k] : k \in 1..Len(VIEWPORTMAPPINGENUM)}

\* the attributes of a camera that the codec reads and writes
Attributes ==
    {"Projection", "ViewportMapping", "Placement", "AspectRatio", "NearDistance",
     "FarDistance", "FocalDistance", "Height", "HeightAngle"}

Vector(x, y, z) == <<x, y, z>>

\* App.Placement(pos, rot)
Placement(pos, rot) == [Base |-> pos, Rotation |-> rot]

\* App.Rotation(axis, angle in degrees): Axis reads back as the unit vector,
\* Angle in radians.  The axes of the model lie along a coordinate axis; the
\* null vector leaves the identity's axis (0, 0, 1).
Normalized(v) ==
    IF \A k \in 1..3 : v[k].m = 0 THEN Vector(Zero, Zero, Float(1))
    ELSE [k \in 1..3 |-> IF v[k].m = 0 THEN Zero ELSE Float(Sign(v[k].m))]

Rotation(axis, angle) == [Axis |-> Normalized(axis), Angle |-> radians(angle)]

\* Camera.PROPERTIES: the defaults of a Camera feature object.  In a record
\* held in a SimpleNamespace the attributes outside attrs do not exist.
DefaultCam ==
    [kind            |-> "FeaturePython",
     attrs           |-> Attributes,
     Projection      |-> "Perspective",
     ViewportMapping |-> "CROP_VIEWPORT_FILL_FRAME",
     Placement       |-> Placement(Vector(Zero, Zero, Zero),
                                   [Axis |-> Vector(Zero, Zero, Float(1)), Angle |-> Zero]),
     AspectRatio     |-> Float(1),
     NearDistance    |-> Zero,
     FarDistance     |-> Float(200),
     FocalDistance   |-> Float(100),
     Height          |-> Float(5),
     HeightAngle     |-> Float(60)]

\* res = SimpleNamespace(): no attribute exists yet
EmptyNamespace ==
    [kind            |-> "SimpleNamespace",
     attrs           |-> {},
     Projection      |-> "",
     ViewportMapping |-> "",
     Placement       |-> Placement(Vector(Zero, Zero, Zero),
                                   [Axis |-> Vector(Zero, Zero, Zero), Angle |-> Zero]),
     AspectRatio     |-> Zero,
     NearDistance    |-> Zero,
     FarDistance     |-> Zero,
     FocalDistance   |-> Zero,
     Height          |-> Zero,
     HeightAngle     |-> Zero]

\* The outcome of statements run on a record: the record as they leave it and
\* the exception that ended them (NoError when they ran to their end).
Done(c) == [cam |-> c, err |-> NoError]

Raise(c, e) == [cam |-> c, err |-> e]

Failed(r) == r.err # NoError

\* cam.<name> = value.  An App::PropertyEnumeration of a feature object takes
\* only a value of its enumeration and raises ValueError for another one.
SetAttr(c, name, value) ==
    IF /\ c.kind = "FeaturePython"
       /\ \/ name = "Projection" /\ value \notin PROJECTIONS
          \/ name = "ViewportMapping" /\ value \notin ViewportMappings
    THEN Raise(c, ValueError("is not part of the enumeration"))
    ELSE Done([c EXCEPT ![name] = value, !.attrs = @ \cup {name}])

\* the statements of r, then Stmt on the record they leave unless they raised
Then(r, Stmt(_)) == Let(r, LAMBDA x : IF Failed(x) THEN x ELSE Stmt(x.cam))

(***************************************************************************)
(* set_cam_from_coin_string                                                *)
(***************************************************************************)

\* float(camdict[key][i - 1]): [err, val]
FloatItem(camdata, key, i) ==
    IF ~HasKey(camdata, key) THEN [err |-> KeyError(key), val |-> Zero]
    ELSE IF Len(Values(camdata, key)) < i THEN [err |-> IndexError, val |-> Zero]
    ELSE Let(ParseFloat(Values(camdata, key)[i]),
             LAMBDA f : IF f.ok THEN [err |-> NoError, val |-> f.val]
                        ELSE [err |-> ValueError("could not convert string to float"),
                              val |-> Zero])

\* str(camdict[key][0]): [err, val]
StrItem(camdata, key) ==
    IF ~HasKey(camdata, key) THEN [err |-> KeyError(key), val |-> ""]
    ELSE IF Values(camdata, key) = <<>> THEN [err |-> IndexError, val |-> ""]
    ELSE [err |-> NoError, val |-> Values(camdata, key)[1]]

\* App.Vector(v) of three tokens: [err, val]
VectorOf(v) ==
    Let(List([k \in 1..3 |-> ParseFloat(v[k])]),
        LAMBDA f : IF \E k \in 1..3 : ~f[k].ok
                   THEN [err |-> ValueError("could not convert string to float"),
                         val |-> Vector(Zero, Zero, Zero)]
                   ELSE [err |-> NoError, val |-> Vector(f[1].val, f[2].val, f[3].val)])

\* App.Vector(camdict[key][0:3]): [err, val].  The host's Vector takes a
\* sequence of exactly three items and converts each one as float() does.
VectorItem(camdata, key) ==
    IF ~HasKey(camdata, key)
    THEN [err |-> KeyError(key), val |-> Vector(Zero, Zero, Zero)]
    ELSE IF Len(Values(camdata, key)) < 3
    THEN [err |-> ValueError("Expected sequence of size 3"),
          val |-> Vector(Zero, Zero, Zero)]
    ELSE VectorOf(SubSeq(Values(camdata, key), 1, 3))

\* What the reads of set_cam_from_coin_string give on the tokens of a text,
\* each as [err, val]: camdata[0][0], App.Vector(camdict["position"][0:3]),
\* App.Vector(camdict["orientation"][0:3]), float(camdict["orientation"][3]),
\* and float(camdict[key][0]) or str(camdict[key][0]) of the other keys.
\* A read that raises gives the exception as err.
Reads(camdata) ==
    [header          |-> IF camdata = <<>> THEN [err |-> IndexError, val |-> ""]
                         ELSE [err |-> NoError, val |-> camdata[1][1]],
     position        |-> VectorItem(camdata, "position"),
     axis            |-> VectorItem(camdata, "orientation"),
     angle           |-> FloatItem(camdata, "orientation", 4),
     focalDistance   |-> FloatItem(camdata, "focalDistance", 1),
     aspectRatio     |-> FloatItem(camdata, "aspectRatio", 1),
     viewportMapping |-> StrItem(camdata, "viewportMapping"),
     nearDistance    |-> FloatItem(camdata, "nearDistance", 1),
     farDistance     |-> FloatItem(camdata, "farDistance", 1),
     height          |-> FloatItem(camdata, "height", 1),
     heightAngle     |-> FloatItem(camdata, "heightAngle", 1)]

\* assert cam.Projection in ("Perspective", "Orthographic")
AssertProjection(c) ==
    IF c.Projection \notin PROJECTIONS
    THEN Raise(c, AssertionError("Invalid camera header in camera string"))
    ELSE Done(c)

\* cam.Projection = camdata[0][0][0:-6], then the assert on it
SetProjection(c, reads) ==
    Then(SetAttr(c, "Projection", StripLast6(reads.header.val)),
         LAMBDA x : AssertProjection(x))

\* pos = ...; rot = ...; cam.Placement = App.Placement(pos, rot)
SetPlacement(c, reads) ==
    IF reads.position.err # NoError THEN Raise(c, reads.position.err)
    ELSE IF reads.axis.err # NoError THEN Raise(c, reads.axis.err)
    ELSE IF reads.angle.err # NoError THEN Raise(c, reads.angle.err)
    ELSE SetAttr(c, "Placement",
                 Placement(reads.position.val,
                           Rotation(reads.axis.val, degrees(reads.angle.val))))

\* cam.<name> = float(camdict[key][0])
SetFloat(c, name, reads, key) ==
    IF reads[key].err # NoError THEN Raise(c, reads[key].err)
    ELSE SetAttr(c, name, reads[key].val)

\* cam.ViewportMapping = str(camdict["viewportMapping"][0])
SetViewportMapping(c, reads) ==
    IF reads.viewportMapping.err # NoError THEN Raise(c, reads.viewportMapping.err)
    ELSE SetAttr(c, "ViewportMapping", reads.viewportMapping.val)

\* a variant without the except clause: the KeyError leaves the function
ExceptKeyErrorMissing(r) == r

\* except KeyError as err: raise ValueError(f"Missing field ...: {err}")
ExceptKeyErrorRaise(r) ==
    Let(r, LAMBDA x : IF x.err.type = "KeyError" THEN Raise(x.cam, MissingField(x.err))
                      ELSE x)

\* except KeyError: pass
ExceptKeyErrorPass(r) ==
    Let(r, LAMBDA x : IF x.err.type = "KeyError" THEN Done(x.cam) ELSE x)

\* except KeyError: cam.<name> = value
ExceptKeyErrorSet(r, name, value) ==
    Let(r, LAMBDA x : IF x.err.type = "KeyError" THEN SetAttr(x.cam, name, value) ELSE x)

\* try: cam.AspectRatio = float(...)  except KeyError: cam.AspectRatio = 1.0
SetAspectRatioOrDefault(c, reads) ==
    ExceptKeyErrorSet(SetFloat(c, "AspectRatio", reads, "aspectRatio"),
                      "AspectRatio", Float(1))

\* try: cam.ViewportMapping = str(...)
\* except KeyError: cam.ViewportMapping = "ADJUST_CAMERA"
SetViewportMappingOrDefault(c, reads) ==
    ExceptKeyErrorSet(SetViewportMapping(c, reads), "ViewportMapping", "ADJUST_CAMERA")

\* a variant that treats the two distances as aspectRatio is treated: a
\* missing field sets the value of Camera.PROPERTIES
SetNearFarOrDefault(c, reads) ==
    Then(ExceptKeyErrorSet(SetFloat(c, "NearDistance", reads, "nearDistance"),
                           "NearDistance", Float(0)),
         LAMBDA x : ExceptKeyErrorSet(SetFloat(x, "FarDistance", reads, "farDistance"),
                                      "FarDistance", Float(200)))

\* the two optional distances, each in its own try ... except KeyError: pass
SetNearFar(c, reads) ==
    Then(ExceptKeyErrorPass(SetFloat(c, "NearDistance", reads, "nearDistance")),
         LAMBDA x : ExceptKeyErrorPass(SetFloat(x, "FarDistance", reads, "farDistance")))

\* if cam.Projection == "Orthographic": cam.Height = float(camdict["height"][0])
\* elif cam.Projection == "Perspective":
\*     cam.HeightAngle = degrees(float(camdict["heightAngle"][0]))
SetHeight(c, reads) ==
    IF c.Projection = "Orthographic" THEN SetFloat(c, "Height", reads, "height")
    ELSE IF c.Projection = "Perspective"
    THEN IF reads.heightAngle.err # NoError THEN Raise(c, reads.heightAngle.err)
         ELSE SetAttr(c, "HeightAngle", degrees(reads.heightAngle.val))
    ELSE Done(c)

\* Render/camera.py: the try block of the required fields
Render_Required(c, reads) ==
    ExceptKeyErrorRaise(
        Then(SetPlacement(c, reads),
             LAMBDA x : SetFloat(x, "FocalDistance", reads, "focalDistance")))

\* camera.py: its try block holds aspectRatio and viewportMapping as well
Legacy_Required(c, reads) ==
    ExceptKeyErrorRaise(
        Then(Then(Then(SetPlacement(c, reads),
                       LAMBDA x : SetFloat(x, "FocalDistance", reads, "focalDistance")),
                  LAMBDA x : SetFloat(x, "AspectRatio", reads, "aspectRatio")),
             LAMBDA x : SetViewportMapping(x, reads)))

\* Render/camera.py set_cam_from_coin_string, on the reads of camstr
Render_set_cam_from_coin_string(c, reads) ==
    IF reads.header.err # NoError THEN Raise(c, reads.header.err)
    ELSE Then(Then(Then(Then(Then(SetProjection(c, reads),
                                  LAMBDA x : Render_Required(x, reads)),
                             LAMBDA x : SetAspectRatioOrDefault(x, reads)),
                        LAMBDA x : SetViewportMappingOrDefault(x, reads)),
                   LAMBDA x : SetNearFar(x, reads)),
              LAMBDA x : SetHeight(x, reads))

\* camera.py set_cam_from_coin_string, on the reads of camstr
Legacy_set_cam_from_coin_string(c, reads) ==
    IF reads.header.err # NoError THEN Raise(c, reads.header.err)
    ELSE Then(Then(Then(SetProjection(c, reads),
                        LAMBDA x : Legacy_Required(x, reads)),
                   LAMBDA x : SetNearFar(x, reads)),
              LAMBDA x : SetHeight(x, reads))

(***************************************************************************)
(* get_coin_string_from_cam                                                *)
(***************************************************************************)

\* sep.join(res)
RECURSIVE Join(_, _)
Join(res, sep) ==
    IF res = <<>> THEN ""
    ELSE IF Len(res) = 1 THEN res[1]
    ELSE res[1] \o sep \o Join(Tail(res), sep)

\* Camera.PROPERTIES[field].Default of the two enumeration properties
EnumDefault(field) ==
    IF field = "Projection" THEN PROJECTIONS ELSE ViewportMappings

\* a variant that checks the Projection only
check_enum_projection(c, field) ==
    IF field \notin c.attrs THEN AttributeError(field)
    ELSE IF field = "Projection" /\ c[field] \notin EnumDefault(field)
    THEN AssertionError("Invalid " \o field \o " value")
    ELSE NoError

\* check_enum(field): the exception of
\* assert getattr(cam, field) in Camera.PROPERTIES[field].Default
check_enum(c, field) ==
    IF field \notin c.attrs THEN AttributeError(field)
    ELSE IF c[field] \notin EnumDefault(field)
    THEN AssertionError("Invalid " \o field \o " value")
    ELSE NoError

\* the first attribute of names, in their order, that the record lacks
FirstMissing(c, names) ==
    LET k == CHOOSE j \in 1..Len(names) :
                 /\ names[j] \notin c.attrs
                 /\ \A i \in 1..(j - 1) : names[i] \in c.attrs
    IN  names[k]

\* the attribute holding the height of the record's projection
HeightAttr(c) == IF c.Projection = "Orthographic" THEN "Height" ELSE "HeightAngle"

\* a variant with the far distance written before the near distance
FieldLinesFarFirst(c) ==
    LET base == c.Placement.Base
        rot  == c.Placement.Rotation
    IN  << " viewportMapping " \o c.ViewportMapping,
           " position " \o Repr(base[1]) \o " " \o Repr(base[2]) \o " " \o Repr(base[3]),
           " orientation " \o Repr(rot.Axis[1]) \o " " \o Repr(rot.Axis[2]) \o " "
               \o Repr(rot.Axis[3]) \o " " \o Repr(rot.Angle),
           " farDistance " \o Repr(c.FarDistance),
           " nearDistance " \o Repr(c.NearDistance),
           " aspectRatio " \o Repr(c.AspectRatio),
           " focalDistance " \o Repr(c.FocalDistance) >>

\* the lines from viewportMapping to focalDistance, the same in both versions
FieldLines(c) ==
    LET base == c.Placement.Base
        rot  == c.Placement.Rotation
    IN  << " viewportMapping " \o c.ViewportMapping,
           " position " \o Repr(base[1]) \o " " \o Repr(base[2]) \o " " \o Repr(base[3]),
           " orientation " \o Repr(rot.Axis[1]) \o " " \o Repr(rot.Axis[2]) \o " "
               \o Repr(rot.Axis[3]) \o " " \o Repr(rot.Angle),
           " nearDistance " \o Repr(c.NearDistance),
           " farDistance " \o Repr(c.FarDistance),
           " aspectRatio " \o Repr(c.AspectRatio),
           " focalDistance " \o Repr(c.FocalDistance) >>

\* a variant that writes HeightAngle as the record holds it, in degrees
HeightLineInDegrees(c) ==
    IF c.Projection = "Orthographic" THEN " height " \o Repr(c.Height)
    ELSE IF c.Projection = "Perspective"
    THEN " heightAngle " \o Repr(c.HeightAngle)
    ELSE ""

\* the height line of the record's projection
HeightLine(c) ==
    IF c.Projection = "Orthographic" THEN " height " \o Repr(c.Height)
    ELSE IF c.Projection = "Perspective"
    THEN " heightAngle " \o Repr(radians(c.HeightAngle))
    ELSE ""

\* Render/camera.py get_coin_string_from_cam: [err, text]
Render_get_coin_string_from_cam(c) ==
    LET reads == <<"Placement", HeightAttr(c), "NearDistance", "FarDistance",
                   "AspectRatio", "FocalDistance">>
        res   == <<"#Inventor V2.1 ascii\n\n\n", c.Projection \o "Camera {">>
                     \o FieldLines(c) \o <<HeightLine(c), "}}\n">>
    IN  IF check_enum(c, "Projection") # NoError
        THEN [err |-> check_enum(c, "Projection"), text |-> ""]
        ELSE IF check_enum(c, "ViewportMapping") # NoError
        THEN [err |-> check_enum(c, "ViewportMapping"), text |-> ""]
        ELSE IF \E k \in 1..Len(reads) : reads[k] \notin c.attrs
        THEN [err |-> AttributeError(FirstMissing(c, reads)), text |-> ""]
        ELSE [err |-> NoError, text |-> Join(res, "\n")]

\* camera.py get_coin_string_from_cam: [err, text]
Legacy_get_coin_string_from_cam(c) ==
    LET reads == <<"Placement", "NearDistance", "FarDistance", "AspectRatio",
                   "FocalDistance", HeightAttr(c)>>
        res   == <<"#Inventor V2.1 ascii\n\n\n", c.Projection \o "Camera {">>
                     \o FieldLines(c)
                     \o (IF c.Projection \in PROJECTIONS THEN <<HeightLine(c)>> ELSE <<>>)
                     \o <<"}\n">>
    IN  IF check_enum(c, "Projection") # NoError
        THEN [err |-> check_enum(c, "Projection"), text |-> ""]
        ELSE IF check_enum(c, "ViewportMapping") # NoError
        THEN [err |-> check_enum(c, "ViewportMapping"), text |-> ""]
        ELSE IF \E k \in 1..Len(reads) : reads[k] \notin c.attrs
        THEN [err |-> AttributeError(FirstMissing(c, reads)), text |-> ""]
        ELSE [err |-> NoError, text |-> Join(res, "\n")]

(***************************************************************************)
(* set_camera_from_gui                                                     *)
(***************************************************************************)

\* ViewProviderCamera.set_camera_from_gui: the record set from the camera
\* node of the active view.  The node's orientation is given by the axis and
\* the angle (radians) of its rotation, its viewportMapping by an index.
set_camera_from_gui(c, node) ==
    LET typed ==
            IF node.type = "SoPerspectiveCamera"
            THEN [c EXCEPT !.Projection = "Perspective",
                           !.HeightAngle = degrees(node.heightAngle)]
            ELSE [c EXCEPT !.Projection = "Orthographic", !.Height = node.height]
    IN  IF node.type \notin {"SoPerspectiveCamera", "SoOrthographicCamera"}
        THEN Raise(c, ValueError("Unknown camera type"))
        ELSE Done([typed EXCEPT
                 !.Placement = Placement(node.position,
                                         [Axis  |-> Normalized(node.axis),
                                          Angle |-> node.angle]),
                 !.NearDistance = node.nearDistance,
                 !.FarDistance = node.farDistance,
                 !.FocalDistance = node.focalDistance,
                 !.AspectRatio = node.aspectRatio,
                 !.ViewportMapping = VIEWPORTMAPPINGENUM[node.viewportMapping + 1]])

(***************************************************************************)
(* Inputs                                                                  *)
(***************************************************************************)

\* the lines of a text, joined as the serializer joins them
Text(lines) == Join(lines, "\n")

\* lines without those at the positions of gone
Without(lines, gone) ==
    LET kept == SelectSeq([k \in 1..Len(lines) |-> k], LAMBDA k : k \notin gone)
    IN  List([k \in 1..Len(kept) |-> lines[kept[k]]])

\* lines with the one at position k replaced
Replace(lines, k, line) == [lines EXCEPT ![k] = line]

\* Render/camera.py DEFAULT_CAMERA_STRING
DEFAULT_CAMERA_STRING ==
    "#Inventor V2.1 ascii\n\nOrthographicCamera {\n  viewportMapping ADJUST_CAMERA\n"
    \o "  position -0 -0 100\n  orientation 0 0 1  0\n  aspectRatio 1\n"
    \o "  focalDistance 100\n  height 100\n}\n"

\* the perspective camera of set_cam_from_coin_string's docstring, its numbers
\* cut to five digits
PerspectiveLines ==
    <<"#Inventor V2.1 ascii", "", "", "PerspectiveCamera {",
      " viewportMapping ADJUST_CAMERA", " position 0 -1.3207 0.8224",
      " orientation 0.99999 0 0  0.2673", " nearDistance 1.6109",
      " farDistance 6611.4", " aspectRatio 1", " focalDistance 5",
      " heightAngle 0.7854", "", "}">>

\* the orthographic camera of the docstring
OrthographicLines ==
    <<"#Inventor V2.1 ascii", "", "", "OrthographicCamera {",
      " viewportMapping ADJUST_CAMERA", " position 0 0 1", " orientation 0 0 1  0",
      " nearDistance 0.999", " farDistance 1.001", " aspectRatio 1",
      " focalDistance 5", " height 4.1421", "", "}">>

PerspectiveExample == Text(PerspectiveLines)

OrthographicExample == Text(OrthographicLines)

\* where the two examples hold the header and each field
LineOf ==
    [header |-> 4, viewportMapping |-> 5, position |-> 6, orientation |-> 7,
     nearDistance |-> 8, farDistance |-> 9, aspectRatio |-> 10, focalDistance |-> 11,
     height |-> 12]

\* the well-formed camera texts
ValidStrings == {DEFAULT_CAMERA_STRING, PerspectiveExample, OrthographicExample}

\* the perspective example with one field left out, and the orthographic one
\* without its height
OmittingStrings ==
    {Text(Without(PerspectiveLines, {k})) : k \in LineOf.viewportMapping..LineOf.height}
        \cup {Text(Without(OrthographicLines, {LineOf.height}))}

\* header lines that are not a camera header, or end in something else than
\* "Camera"
OtherHeaders ==
    {"FooCamera {", "Camera {", "PerspectiveFoobar {"}

HeaderStrings ==
    {Text(Replace(PerspectiveLines, LineOf.header, h)) : h \in OtherHeaders}
        \cup {Text(Replace(OrthographicLines, LineOf.header, "OrthographicKamera {"))}

\* one line of an example replaced, some of the others left out
Changed(lines, field, line, gone) ==
    Text(Without(Replace(lines, LineOf[field], line), gone))

\* fields that are present with too few or unparsable values, alone and
\* together with a missing field; a text that lacks two fields
MalformedStrings ==
    {Changed(PerspectiveLines, "orientation", " orientation 0 0 1", {}),
     Changed(PerspectiveLines, "orientation", " orientation 0 1", {}),
     Changed(PerspectiveLines, "position", " position x 0 0", {}),
     Changed(OrthographicLines, "viewportMapping", " viewportMapping BOGUS", {}),
     Changed(PerspectiveLines, "orientation", " orientation 0 0 1",
             {LineOf.focalDistance}),
     Changed(OrthographicLines, "position", " position x 0 0", {LineOf.orientation}),
     Text(Without(PerspectiveLines, {LineOf.position, LineOf.focalDistance}))}

\* texts without any token, and texts with a key on several lines
OddStrings ==
    {"", "# no camera here\n", PerspectiveExample \o "\n position 1 2 3 # again\n"}

\* where the two examples hold a line without a token
EmptyLines == [first |-> 2, second |-> 3, last |-> 13]

\* Texts with a key on several lines: focalDistance a second time with another
\* value, after a first value that is no number, and with a last value that is
\* no number; and the perspective example with a second header line for the
\* other projection, a line of whitespace and a line that is only a comment.
RepeatingStrings ==
    {Text(Replace(OrthographicLines, EmptyLines.last, " focalDistance 7")),
     Text(Replace(Replace(OrthographicLines, LineOf.focalDistance, " focalDistance x"),
                  EmptyLines.last, " focalDistance 7")),
     Text(Replace(OrthographicLines, EmptyLines.last, " focalDistance x")),
     Text(Replace(Replace(Replace(PerspectiveLines, EmptyLines.first, "  # a comment"),
                          EmptyLines.second, " \t "),
                  EmptyLines.last, "OrthographicCamera { # again"))}

\* texts of lines without a token only
EmptyStrings == {"\n \n\t\n", " # a comment\n\n# another one"}

CamStrings ==
    ValidStrings \cup OmittingStrings \cup HeaderStrings \cup MalformedStrings
        \cup OddStrings \cup RepeatingStrings \cup EmptyStrings

\* the texts given to the calls that make a new record: the well-formed ones,
\* one with a mapping outside the enumeration and one with another header
NewCamStrings ==
    ValidStrings
        \cup {Changed(OrthographicLines, "viewportMapping", " viewportMapping BOGUS", {}),
              Text(Replace(PerspectiveLines, LineOf.header, "FooCamera {"))}

\* camera nodes of the 3D view
GuiNodes ==
    {[type |-> "SoPerspectiveCamera", heightAngle |-> FloatOf(105, 100),
      height |-> Zero, position |-> Vector(Float(10), Float(-20), Float(30)),
      axis |-> Vector(Zero, Float(1), Zero), angle |-> FloatOf(999, 1000),
      nearDistance |-> Float(1), farDistance |-> Float(500),
      focalDistance |-> Float(50), aspectRatio |-> FloatOf(15, 10),
      viewportMapping |-> 0],
     [type |-> "SoOrthographicCamera", heightAngle |-> Zero,
      height |-> Float(25), position |-> Vector(Zero, Zero, Float(7)),
      axis |-> Vector(Float(-1), Zero, Zero), angle |-> FloatOf(157, 100),
      nearDistance |-> FloatOf(1, 10), farDistance |-> Float(90),
      focalDistance |-> Float(7), aspectRatio |-> Float(2),
      viewportMapping |-> 2],
     [type |-> "SoCamera", heightAngle |-> Zero,
      height |-> Zero, position |-> Vector(Zero, Zero, Zero),
      axis |-> Vector(Zero, Zero, Float(1)), angle |-> Zero,
      nearDistance |-> Zero, farDistance |-> Zero,
      focalDistance |-> Zero, aspectRatio |-> Zero,
      viewportMapping |-> 4]}

(***************************************************************************)
(* The operations on a camera                                              *)
(***************************************************************************)

\* the calls made in one behaviour
MaxCalls == 3

\* the two files of the repository that hold the codec
Modules == {"camera", "Render.camera"}

\* How the last call ended: the operation, the camstr it was given and the
\* camdata made of it, the exception it raised and the text it returned.
\* roundtrip says that camstr was the text get_coin_string_from_cam had just
\* returned for the record.
Outcome(op, camstr, camdata, err, text, roundtrip) ==
    [op |-> op, camstr |-> camstr, camdata |-> camdata, err |-> err, text |-> text,
     roundtrip |-> roundtrip]

\* the last call returned a camera text
Serialized == result.op = "get_coin_string_from_cam" /\ result.err = NoError

\* the camera texts a caller may pass: an input, or the text just returned
Passable(inputs) == inputs \cup (IF Serialized THEN {result.text} ELSE {})

\* set_cam_from_coin_string of the module in use, on the camdata of camstr
set_cam_from_coin_string(c, camdata) ==
    Let(Reads(camdata),
        LAMBDA reads : IF module = "camera" THEN Legacy_set_cam_from_coin_string(c, reads)
                       ELSE Render_set_cam_from_coin_string(c, reads))

get_coin_string_from_cam(c) ==
    IF module = "camera" THEN Legacy_get_coin_string_from_cam(c)
    ELSE Render_get_coin_string_from_cam(c)

\* res = SimpleNamespace(); set_cam_from_coin_string(res, camstr); return res
get_cam_from_coin_string(camdata) == set_cam_from_coin_string(EmptyNamespace, camdata)

\* Camera.create() with the GUI down: the feature object with its default
\* properties, which Render/camera.py's on_create_cb sets from
\* DEFAULT_CAMERA_STRING
Created ==
    IF module = "camera" THEN DefaultCam
    ELSE set_cam_from_coin_string(DefaultCam, CamData(DEFAULT_CAMERA_STRING)).cam

\* the user parameters when none is set: GetString gives its default ""
NoParams == [Prefix |-> "", CyclesPath |-> "", CyclesParameters |-> ""]

\* no call of the renderer module was made
NoCall == [op |-> "", args |-> <<>>, pc |-> "", err |-> NoError, ret |-> ""]

\* the renderer module is not in use
RendererAtRest ==
    /\ params = NoParams
    /\ console = <<>>
    /\ process = <<>>
    /\ call = NoCall
    /\ scene = <<>>

Init ==
    /\ module \in Modules
    /\ cam = DefaultCam
    /\ result = Outcome("Camera", "", <<>>, NoError, "", FALSE)
    /\ calls = 0
    /\ RendererAtRest

\* set_cam_from_coin_string(cam, camstr)
SetCamFromCoinString ==
    /\ calls < MaxCalls
    /\ \E camstr \in Passable(CamStrings) :
       \E camdata \in {CamData(camstr)} :
       \E r \in {set_cam_from_coin_string(cam, camdata)} :
           /\ cam' = r.cam
           /\ result' = Outcome("set_cam_from_coin_string", camstr, camdata,
                                r.err, "", Serialized /\ camstr = result.text)
    /\ calls' = calls + 1
    /\ UNCHANGED <<module, cycles>>

\* cam = get_cam_from_coin_string(camstr): when the call raises, the new
\* namespace is lost and the caller keeps the record it had
GetCamFromCoinString ==
    /\ module = "Render.camera"
    /\ calls < MaxCalls
    /\ \E camstr \in Passable(NewCamStrings) :
       \E camdata \in {CamData(camstr)} :
       \E r \in {get_cam_from_coin_string(camdata)} :
           /\ cam' = IF Failed(r) THEN cam ELSE r.cam
           /\ result' = Outcome("get_cam_from_coin_string", camstr, camdata,
                                r.err, "", Serialized /\ camstr = result.text)
    /\ calls' = calls + 1
    /\ UNCHANGED <<module, cycles>>

\* get_coin_string_from_cam(cam)
GetCoinStringFromCam ==
    /\ calls < MaxCalls
    /\ \E r \in {get_coin_string_from_cam(cam)} :
           result' = Outcome("get_coin_string_from_cam", "", <<>>, r.err, r.text, FALSE)
    /\ calls' = calls + 1
    /\ UNCHANGED <<module, cam, cycles>>

\* ViewProviderCamera.set_camera_from_gui() of a camera feature object
SetCameraFromGui ==
    /\ cam.kind = "FeaturePython"
    /\ calls < MaxCalls
    /\ \E node \in GuiNodes :
       \E r \in {set_camera_from_gui(cam, node)} :
           /\ cam' = r.cam
           /\ result' = Outcome("set_camera_from_gui", "", <<>>, r.err, "", FALSE)
    /\ calls' = calls + 1
    /\ UNCHANGED <<module, cycles>>

\* retrieve_legacy_camera(project): a new camera feature object set from the
\* project's camera string
RetrieveLegacyCamera ==
    /\ calls < MaxCalls
    /\ \E camstr \in Passable(NewCamStrings) :
       \E camdata \in {CamData(camstr)} :
       \E created \in {Created} :
       \E r \in {set_cam_from_coin_string(created, camdata)} :
           /\ cam' = r.cam
           /\ result' = Outcome("retrieve_legacy_camera", camstr, camdata,
                                r.err, "", Serialized /\ camstr = result.text)
    /\ calls' = calls + 1
    /\ UNCHANGED <<module, cycles>>

Next ==
    \/ SetCamFromCoinString
    \/ GetCamFromCoinString
    \/ GetCoinStringFromCam
    \/ SetCameraFromGui
    \/ RetrieveLegacyCamera

Spec == Init /\ [][Next]_vars

(***************************************************************************)
(* renderers/Cycles.py: render                                             *)
(***************************************************************************)

\* the camera codec is not in use
CameraAtRest ==
    /\ module = "Render.camera"
    /\ cam = DefaultCam
    /\ result = Outcome("Camera", "", <<>>, NoError, "", FALSE)
    /\ calls = 0

\* the user parameters BaseApp/Preferences/Mod/Render that render reads
Params ==
    [Prefix : {"", "optirun"},
     CyclesPath : {"", "/usr/bin/cycles"},
     CyclesParameters : {"", "--samples 4"}]

\* the arguments callers give to render
RenderArgs ==
    [project  : {[PageResult |-> "/tmp/scene.xml"]},
     prefix   : {"", "nice"},
     external : BOOLEAN,
     output   : {"out.png", "/tmp/img.jpg"},
     width    : {1, 800},
     height   : {600}]

\* the exit statuses of the external process
ExitStatus == {0, 1}

\* prefix = params.GetString("Prefix", ""); if prefix: prefix += " "
\* (the argument prefix is assigned before it is read)
RenderPrefix(p, args) == IF p.Prefix # "" THEN p.Prefix \o " " ELSE ""

\* a variant that gives the sizes before the output
CommandArgsSizeFirst(p, args) ==
    p.CyclesParameters
        \o " --width " \o ToString(args.width)
        \o " --height " \o ToString(args.height)
        \o " --output " \o args.output
        \o (IF ~args.external THEN " --background" ELSE "")

\* args, as it stands when cmd is built
CommandArgs(p, args) ==
    p.CyclesParameters
        \o " --output " \o args.output
        \o (IF ~args.external THEN " --background" ELSE "")
        \o " --width " \o ToString(args.width)
        \o " --height " \o ToString(args.height)

\* cmd = prefix + rpath + " " + args + " " + project.PageResult
Command(p, args) ==
    RenderPrefix(p, args) \o p.CyclesPath \o " " \o CommandArgs(p, args) \o " "
        \o args.project.PageResult

\* a variant that takes every path for a renderer
AnyPath(rpath) == FALSE

\* if not rpath
NoPath(rpath) == rpath = ""

UnableToLocate ==
    "Unable to locate renderer executable. Please set the correct path in "
        \o "Edit -> Preferences -> Render\n"

\* a variant that does not wait for the process, as subprocess.Popen does
Started(p) == p.state \in {"running", "exited"}

\* os.system(cmd) returns when the command has run
Completed(p) == p.state = "exited"

\* a call of render is at os.system
AtSystem == call.op = "render" /\ call.pc = "os.system"

\* render(project, prefix, external, output, width, height) up to os.system:
\* without a renderer path it prints the error and returns "", with one it
\* prints the command and starts it
Render ==
    /\ ~AtSystem
    /\ \E args \in RenderArgs :
           IF NoPath(params.CyclesPath)
           THEN /\ console' = <<[level |-> "Error", text |-> UnableToLocate]>>
                /\ process' = <<>>
                /\ call' = [op |-> "render", args |-> args, pc |-> "returned",
                            err |-> NoError, ret |-> ""]
           ELSE /\ console' = <<[level |-> "Message",
                                 text |-> Command(params, args) \o "\n"]>>
                /\ process' = <<[cmd |-> Command(params, args), state |-> "running",
                                 status |-> 0]>>
                /\ call' = [op |-> "render", args |-> args, pc |-> "os.system",
                            err |-> NoError, ret |-> ""]
    /\ UNCHANGED <<camera, params, scene>>

\* the external process ends with some exit status
ProcessExit ==
    /\ \E k \in 1..Len(process) : \E status \in ExitStatus :
           /\ process[k].state = "running"
           /\ process' = [process EXCEPT ![k].state = "exited", ![k].status = status]
    /\ UNCHANGED <<camera, params, console, call, scene>>

\* os.system returns, its value is dropped, and render returns output
RenderReturn ==
    /\ AtSystem
    /\ Completed(process[Len(process)])
    /\ call' = [call EXCEPT !.pc = "returned", !.ret = call.args.output]
    /\ UNCHANGED <<camera, params, console, process, scene>>

RenderInit ==
    /\ CameraAtRest
    /\ params \in Params
    /\ console = <<>>
    /\ process = <<>>
    /\ call = NoCall
    /\ scene = <<>>

RenderNext ==
    \/ Render
    \/ ProcessExit
    \/ RenderReturn

RenderSpec == RenderInit /\ [][RenderNext]_vars

(***************************************************************************)
(* renderers/Cycles.py: the write functions                                *)
(***************************************************************************)

\* write_object: snippet1 (lines 71-74)
ObjectSnippet1(n, c) ==
    "\n"
        \o "    <!-- Generated by FreeCAD - Object '" \o n \o "' -->\n"
        \o "    <shader name=\"" \o n \o "_mat\">\n"
        \o "        <diffuse_bsdf name=\"" \o n \o "_bsdf\" color=\"" \o Repr(c[1]) \o ", " \o Repr(c[2]) \o ", " \o Repr(c[3]) \o "\"/>"

\* write_object: snippet2a (lines 76-82)
ObjectSnippet2a(n, a) ==
    "\n"
        \o "        <transparent_bsdf name=\"" \o n \o "_trans\" color=\"1.0, 1.0, 1.0\"/>\n"
        \o "        <mix_closure name=\"" \o n \o "_mix\" fac=\"" \o Repr(a) \o "\"/>\n"
        \o "        <connect from=\"" \o n \o "_trans bsdf\"  to=\"" \o n \o "_mix closure1\"/>\n"
        \o "        <connect from=\"" \o n \o "_bsdf bsdf\"   to=\"" \o n \o "_mix closure2\"/>\n"
        \o "        <connect from=\"" \o n \o "_mix closure\" to=\"output surface\"/>\n"
        \o "    </shader>"

\* write_object: snippet2b (lines 84-86)
ObjectSnippet2b(n) ==
    "\n"
        \o "        <connect from=\"" \o n \o "_bsdf bsdf\"   to=\"output surface\"/>\n"
        \o "    </shader>"

\* write_object: snippet3 (lines 88-93)
ObjectSnippet3(n, p, i, v) ==
    "\n"
        \o "    <state shader=\"" \o n \o "_mat\">\n"
        \o "        <mesh P=\"" \o p \o "\"\n"
        \o "              nverts=\"" \o i \o "\"\n"
        \o "              verts=\"" \o v \o "\"/>\n"
        \o "    </state>\n"

\* write_camera: snippet (lines 118-124)
CameraSnippet(n, a, r, p) ==
    "\n"
        \o "    <!-- Generated by FreeCAD - Camera '" \o n \o "' -->\n"
        \o "    <transform rotate=\"" \o Repr(a) \o " " \o Repr(r[1]) \o " " \o Repr(r[2]) \o " " \o Repr(r[3]) \o "\"\n"
        \o "               translate=\"" \o Repr(p[1]) \o " " \o Repr(p[2]) \o " " \o Repr(p[3]) \o "\"\n"
        \o "               scale=\"1 1 -1\">\n"
        \o "        <camera type=\"perspective\"/>\n"
        \o "    </transform>"

\* write_pointlight: snippet (lines 139-152)
PointlightSnippet(n, c, p, s) ==
    "\n"
        \o "    <!-- Generated by FreeCAD - Pointlight '" \o n \o "' -->\n"
        \o "    <shader name=\"" \o n \o "_shader\">\n"
        \o "        <emission name=\"" \o n \o "_emit\"\n"
        \o "                  color=\"" \o Repr(c[1]) \o " " \o Repr(c[2]) \o " " \o Repr(c[3]) \o "\"\n"
        \o "                  strength=\"" \o Repr(s) \o "\"/>\n"
        \o "        <connect from=\"" \o n \o "_emit emission\"\n"
        \o "                 to=\"output surface\"/>\n"
        \o "    </shader>\n"
        \o "    <state shader=\"" \o n \o "_shader\">\n"
        \o "        <light type=\"point\"\n"
        \o "               co=\"" \o Repr(p[1]) \o " " \o Repr(p[2]) \o " " \o Repr(p[3]) \o "\"\n"
        \o "               strength=\"1 1 1\"/>\n"
        \o "    </state>\n"

\* write_arealight: snippet (lines 170-189)
ArealightSnippet(n, c, p, s, u, v, a, b, d) ==
    "\n"
        \o "    <!-- Generated by FreeCAD - Area light '" \o n \o "' -->\n"
        \o "    <shader name=\"" \o n \o "_shader\">\n"
        \o "        <emission name=\"" \o n \o "_emit\"\n"
        \o "                  color=\"" \o Repr(c[1]) \o " " \o Repr(c[2]) \o " " \o Repr(c[3]) \o "\"\n"
        \o "                  strength=\"" \o Repr(s) \o "\"/>\n"
        \o "        <connect from=\"" \o n \o "_emit emission\"\n"
        \o "                 to=\"output surface\"/>\n"
        \o "    </shader>\n"
        \o "    <state shader=\"" \o n \o "_shader\">\n"
        \o "        <light type=\"area\"\n"
        \o "               co=\"" \o Repr(p[1]) \o " " \o Repr(p[2]) \o " " \o Repr(p[3]) \o "\"\n"
        \o "               strength=\"1 1 1\"\n"
        \o "               axisu=\"" \o Repr(u[1]) \o " " \o Repr(u[2]) \o " " \o Repr(u[3]) \o "\"\n"
        \o "               axisv=\"" \o Repr(v[1]) \o " " \o Repr(v[2]) \o " " \o Repr(v[3]) \o "\"\n"
        \o "               sizeu=\"" \o Repr(a) \o "\"\n"
        \o "               sizev=\"" \o Repr(b) \o "\"\n"
        \o "               size=\"1\"\n"
        \o "               dir=\"" \o Repr(d[1]) \o " " \o Repr(d[2]) \o " " \o Repr(d[3]) \o "\" />\n"
        \o "    </state>\n"

\* write_sunskylight: snippet (lines 213-224)
SunskylightSnippet(n, d, t) ==
    "\n"
        \o "    <!-- Generated by FreeCAD - Sun_sky light '" \o n \o "' -->\n"
        \o "    <background name=\"sky_bg\">\n"
        \o "          <background name=\"sky_bg\" />\n"
        \o "          <sky_texture name=\"sky_tex\"\n"
        \o "                       type=\"hosek_wilkie\"\n"
        \o "                       turbidity=\"" \o Repr(t) \o "\"\n"
        \o "                       sun_direction=\"" \o Repr(d[1]) \o ", " \o Repr(d[2]) \o ", " \o Repr(d[3]) \o "\" />\n"
        \o "          <connect from=\"sky_tex color\" to=\"sky_bg color\" />\n"
        \o "          <connect from=\"sky_bg background\" to=\"output surface\" />\n"
        \o "    </background>\n"
        \o "    "

\* a variant that mixes in the transparent shader for every alpha
Always(alpha) == TRUE

\* alpha < 1
BelowOne(alpha) == Less(alpha, Float(1))

\* "{0.x} {0.y} {0.z}".format(p)
FormatPoint(p) == Repr(p[1]) \o " " \o Repr(p[2]) \o " " \o Repr(p[3])

\* "{} {} {}".format(*v) of a facet's three point indices
FormatFacet(v) == ToString(v[1]) \o " " \o ToString(v[2]) \o " " \o ToString(v[3])

\* write_object(name, mesh, color, alpha): the text
write_object(name, mesh, color, alpha) ==
    ObjectSnippet1(name, color)
        \o (IF BelowOne(alpha) THEN ObjectSnippet2a(name, alpha)
            ELSE ObjectSnippet2b(name))
        \o ObjectSnippet3(
               name,
               Join(List([k \in 1..Len(mesh.Topology[1]) |->
                             FormatPoint(mesh.Topology[1][k])]), "  "),
               Join(List([k \in 1..Len(mesh.Topology[2]) |-> "3"]), "  "),
               Join(List([k \in 1..Len(mesh.Topology[2]) |->
                             FormatFacet(mesh.Topology[2][k])]), "  "))

\* write_camera(name, pos, updir, target): the text
write_camera(name, pos, updir, target) ==
    CameraSnippet(name, degrees(pos.Rotation.Angle), pos.Rotation.Axis, pos.Base)

\* a variant that writes the power as the host holds it
Unscaled(power) == power

\* power*100
Strength(power) == Mul(power, Float(100))

\* write_pointlight(name, pos, color, power): the text
write_pointlight(name, pos, color, power) ==
    PointlightSnippet(name, color, pos, Strength(power))

\* 2 * x
Twice(x) == Mul(Float(2), x)

\* 1 - 2 * (x + y)
OneLessTwice(x, y) == Sub(Float(1), Twice(Add(x, y)))

\* a[1] * b[1] + a[2] * b[2] + a[3] * b[3]
Dot(a, b) == Add(Add(Mul(a[1], b[1]), Mul(a[2], b[2])), Mul(a[3], b[3]))

\* the rows of the rotation matrix of the unit quaternion q = (x, y, z, w)
Matrix(q) ==
    <<Vector(OneLessTwice(Mul(q[2], q[2]), Mul(q[3], q[3])),
             Twice(Sub(Mul(q[1], q[2]), Mul(q[3], q[4]))),
             Twice(Add(Mul(q[1], q[3]), Mul(q[2], q[4])))),
      Vector(Twice(Add(Mul(q[1], q[2]), Mul(q[3], q[4]))),
             OneLessTwice(Mul(q[1], q[1]), Mul(q[3], q[3])),
             Twice(Sub(Mul(q[2], q[3]), Mul(q[1], q[4])))),
      Vector(Twice(Sub(Mul(q[1], q[3]), Mul(q[2], q[4]))),
             Twice(Add(Mul(q[2], q[3]), Mul(q[1], q[4]))),
             OneLessTwice(Mul(q[1], q[1]), Mul(q[2], q[2])))>>

\* rot.multVec(src): src rotated by the rotation of quaternion rot.Q
multVec(rot, src) ==
    Let(Matrix(rot.Q),
        LAMBDA rows : Vector(Dot(rows[1], src), Dot(rows[2], src), Dot(rows[3], src)))

\* a variant with the operands of the product exchanged
crossed(a, b) ==
    Vector(Sub(Mul(b[2], a[3]), Mul(b[3], a[2])),
           Sub(Mul(b[3], a[1]), Mul(b[1], a[3])),
           Sub(Mul(b[1], a[2]), Mul(b[2], a[1])))

\* a.cross(b)
cross(a, b) ==
    Vector(Sub(Mul(a[2], b[3]), Mul(a[3], b[2])),
           Sub(Mul(a[3], b[1]), Mul(a[1], b[3])),
           Sub(Mul(a[1], b[2]), Mul(a[2], b[1])))

\* the snippet of write_arealight on the two axes
ArealightText(name, pos, size_u, size_v, color, power, axis1, axis2) ==
    ArealightSnippet(name, color, pos.Base, Strength(power), axis1, axis2, size_u,
                     size_v, cross(axis1, axis2))

\* write_arealight(name, pos, size_u, size_v, color, power): the text
write_arealight(name, pos, size_u, size_v, color, power) ==
    Let(<<multVec(pos.Rotation, Vector(Float(1), Zero, Zero)),
          multVec(pos.Rotation, Vector(Zero, Float(1), Zero))>>,
        LAMBDA axes : ArealightText(name, pos, size_u, size_v, color, power,
                                    axes[1], axes[2]))

\* v.Length
Length(v) == Sqrt(Dot(v, v))

\* v.normalize() of a vector that is not null: each component over the length
Normalize(v) ==
    Let(Length(v), LAMBDA len : Vector(Div(v[1], len), Div(v[2], len), Div(v[3], len)))

\* The vectors a call works on are objects: heap is the sequence of their
\* values, a reference is a position in it.  A call's new objects come after
\* the caller's and are gone when it returns.

\* a variant that takes the caller's vector itself
SameVector(heap, ref) == [heap |-> heap, ref |-> ref]

\* App.Vector(direction): a new vector with the components of the given one
NewVector(heap, ref) == [heap |-> Append(heap, heap[ref]), ref |-> Len(heap) + 1]

\* a variant that leaves the vector as it is
NotNormalized(heap, ref) == heap

\* _dir.normalize(): the vector is changed in place
NormalizeAt(heap, ref) == [heap EXCEPT ![ref] = Normalize(@)]

\* write_sunskylight after the assertion, _dir made: heap and text at return
SunskylightText(heap, name, dir, turbidity) ==
    Let(NormalizeAt(heap, dir),
        LAMBDA after : [heap |-> after, err |-> NoError,
                        text |-> SunskylightSnippet(name, after[dir], turbidity)])

\* write_sunskylight(name, direction, distance, turbidity) on the vectors of
\* heap: [heap, err, text]
write_sunskylight(heap, name, direction, distance, turbidity) ==
    IF Length(heap[direction]).m = 0
    THEN [heap |-> heap, err |-> AssertionError(""), text |-> ""]
    ELSE Let(NewVector(heap, direction),
             LAMBDA new : SunskylightText(new.heap, name, new.ref, turbidity))

\* the names of the objects of a project
Names == {"Box", "Lamp"}

Colors ==
    {Vector(FloatOf(8, 10), FloatOf(8, 10), FloatOf(8, 10)),
     Vector(Float(1), Zero, Zero)}

\* a triangle, and a square of two triangles
Meshes ==
    {[Topology |-> <<<<Vector(Zero, Zero, Zero), Vector(Float(1), Zero, Zero),
                       Vector(Zero, Float(1), Zero)>>,
                     <<<<0, 1, 2>>>>>>],
     [Topology |-> <<<<Vector(Zero, Zero, Zero), Vector(Float(2), Zero, Zero),
                       Vector(Float(2), FloatOf(5, 10), Zero),
                       Vector(Zero, FloatOf(5, 10), Zero)>>,
                     <<<<0, 1, 2>>, <<0, 2, 3>>>>>>]}

\* transparencies from clear to opaque
Alphas == {Zero, FloatOf(1, 2), FloatOf(999, 1000), Float(1)}

LightPositions ==
    {Vector(Zero, Zero, Zero), Vector(Float(10), Float(-20), FloatOf(5, 10))}

Powers == {Zero, FloatOf(7, 100), Float(1), Float(60)}

\* the arguments of write_object
ObjectArgs == [name : Names, mesh : Meshes, color : Colors, alpha : Alphas]

\* the arguments of write_camera: placements of an axis and an angle in radians
CameraArgs ==
    [name   : {"Camera"},
     pos    : {Placement(Vector(Zero, Zero, Float(1)),
                         [Axis |-> Vector(Zero, Zero, Float(1)), Angle |-> Zero]),
               Placement(Vector(Float(10), Float(-20), Float(30)),
                         [Axis |-> Vector(Zero, Float(1), Zero),
                          Angle |-> FloatOf(157, 100)]),
               Placement(Vector(Zero, Float(5), Zero),
                         [Axis |-> Vector(Float(-1), Zero, Zero),
                          Angle |-> FloatOf(785, 1000)])},
     updir  : {Vector(Zero, Float(1), Zero)},
     target : {Vector(Zero, Zero, Zero)}]

\* the arguments of write_pointlight
PointlightArgs == [name : Names, pos : LightPositions, color : Colors, power : Powers]

\* orientations of an area light as unit quaternions (x, y, z, w): none, a
\* quarter turn about Z, a quarter turn about X, a half turn about X, a
\* third of a turn about (1, 1, 1), a turn of about 74 degrees about Y
Quaternions ==
    {<<Zero, Zero, Zero, Float(1)>>,
     <<Zero, Zero, FloatOf(707, 1000), FloatOf(707, 1000)>>,
     <<FloatOf(707, 1000), Zero, Zero, FloatOf(707, 1000)>>,
     <<Float(1), Zero, Zero, Zero>>,
     <<FloatOf(1, 2), FloatOf(1, 2), FloatOf(1, 2), FloatOf(1, 2)>>,
     <<Zero, FloatOf(6, 10), Zero, FloatOf(8, 10)>>}

\* the arguments of write_arealight
ArealightArgs ==
    [name   : {"Panel"},
     pos    : {[Base |-> Vector(Zero, Zero, Float(3)), Rotation |-> [Q |-> q]] :
                  q \in Quaternions},
     size_u : {Float(2)},
     size_v : {Float(2), FloatOf(5, 10)},
     color  : {Vector(Float(1), Float(1), Float(1))},
     power  : {FloatOf(7, 100), Float(60)}]

\* the sun directions the caller holds, the null vector among them
Directions ==
    <<Vector(Zero, Zero, Zero), Vector(Zero, Zero, Float(1)),
      Vector(Float(3), Float(4), Zero), Vector(Float(1), Float(1), Float(1)),
      Vector(Zero, Float(-2), Zero), Vector(FloatOf(-1, 10), Float(2), Float(-2))>>

\* the arguments of write_sunskylight, direction a reference to a vector of
\* the caller
SunskylightArgs ==
    [name      : {"Sun"},
     direction : 1..Len(Directions),
     distance  : {Float(1)},
     turbidity : {Float(2), FloatOf(35, 10)}]

\* the call returned ret, or raised err
Returned(op, args, err, ret) ==
    [op |-> op, args |-> args, pc |-> "returned", err |-> err, ret |-> ret]

WriteObject ==
    /\ \E args \in ObjectArgs :
       \E text \in {write_object(args.name, args.mesh, args.color, args.alpha)} :
           call' = Returned("write_object", args, NoError, text)
    /\ UNCHANGED <<camera, params, console, process, scene>>

WriteCamera ==
    /\ \E args \in CameraArgs :
       \E text \in {write_camera(args.name, args.pos, args.updir, args.target)} :
           call' = Returned("write_camera", args, NoError, text)
    /\ UNCHANGED <<camera, params, console, process, scene>>

WritePointlight ==
    /\ \E args \in PointlightArgs :
       \E text \in {write_pointlight(args.name, args.pos, args.color, args.power)} :
           call' = Returned("write_pointlight", args, NoError, text)
    /\ UNCHANGED <<camera, params, console, process, scene>>

WriteArealight ==
    /\ \E args \in ArealightArgs :
       \E text \in {write_arealight(args.name, args.pos, args.size_u, args.size_v,
                                    args.color, args.power)} :
           call' = Returned("write_arealight", args, NoError, text)
    /\ UNCHANGED <<camera, params, console, process, scene>>

\* the vectors the call made are dropped when it returns
WriteSunskylight ==
    /\ \E args \in SunskylightArgs :
       \E r \in {write_sunskylight(scene, args.name, args.direction, args.distance,
                                   args.turbidity)} :
           /\ call' = Returned("write_sunskylight", args, r.err, r.text)
           /\ scene' = SubSeq(r.heap, 1, Len(scene))
    /\ UNCHANGED <<camera, params, console, process>>

WriteInit ==
    /\ CameraAtRest
    /\ params \in {p \in Params : p.Prefix = "" /\ p.CyclesParameters = ""}
    /\ console = <<>>
    /\ process = <<>>
    /\ call = NoCall
    /\ scene = Directions

WriteNext ==
    \/ WriteObject
    \/ WriteCamera
    \/ WritePointlight
    \/ WriteArealight
    \/ WriteSunskylight

WriteSpec == WriteInit /\ [][WriteNext]_vars

(***************************************************************************)
(* Properties                                                              *)
(***************************************************************************)

\* the calls that parse a camera text into a record
ParseOps ==
    {"set_cam_from_coin_string", "get_cam_from_coin_string", "retrieve_legacy_camera"}

\* the last call parsed the text result.camstr
Parsed == result.op \in ParseOps

\* the camdata of the text the last call parsed
ParsedData == result.camdata

\* the two header tokens of the camera text format
CameraHeaders == {"PerspectiveCamera", "OrthographicCamera"}

\* the text has a first token, and it is one of the two headers
ValidHeader(camdata) == camdata # <<>> /\ camdata[1][1] \in CameraHeaders

\* the exceptions the parser raises for a malformed text: the failed header
\* assertion and ValueError
FormatError(err) == err.type \in {"AssertionError", "ValueError"}

\* the field's values start with n tokens that float() converts
WellFormed(camdata, key, n) ==
    /\ HasKey(camdata, key)
    /\ Len(Values(camdata, key)) >= n
    /\ \A k \in 1..n : ParseFloat(Values(camdata, key)[k]).ok

\* two floats differ by no more than two units of the last digit kept
Close(a, b) ==
    \/ a = b
    \/ /\ a.m # 0 /\ b.m # 0
       /\ Abs(a.e - b.e) <= 1
       /\ LET e == IF a.e < b.e THEN a.e ELSE b.e
              x == a.m * Pow10(a.e - e)
              y == b.m * Pow10(b.e - e)
          IN  Abs(x - y) * Pow10(Precision - 1) <= 2 * Abs(y)

\* the attribute holds the same value in both records
SameAttr(c, d, name) == name \in c.attrs /\ name \in d.attrs /\ c[name] = d[name]

\* c and d agree in everything the round trip is to keep but the rotation and
\* the height angle
SameButAngles(c, d) ==
    /\ \A name \in {"Projection", "ViewportMapping", "AspectRatio", "NearDistance",
                    "FarDistance", "FocalDistance"} : SameAttr(c, d, name)
    /\ "Placement" \in c.attrs /\ "Placement" \in d.attrs
    /\ c.Placement.Base = d.Placement.Base
    /\ c.Projection = "Orthographic" => SameAttr(c, d, "Height")
    /\ c.Projection = "Perspective" => "HeightAngle" \in c.attrs

\* C1 as stated: parsing the text made from a record r gives a record equal
\* to r in projection, viewport mapping, placement, focal distance, aspect
\* ratio, near and far distance and the height or height angle of r's
\* projection.  (The text is parsed right after it was made, so the record
\* before the parse is r.)
C1_RoundTripEqual ==
    [][result'.roundtrip =>
          /\ result'.err = NoError
          /\ SameButAngles(cam', cam)
          /\ cam'.Placement.Rotation = cam.Placement.Rotation
          /\ cam'.Projection = "Perspective" => cam'.HeightAngle = cam.HeightAngle]_vars

\* C1 amended: the parse of the text made from a record r succeeds and gives
\* a record equal to r in projection, viewport mapping, position, focal
\* distance, aspect ratio, near and far distance and Height, and within
\* floating point tolerance of r in rotation axis, rotation angle and
\* HeightAngle.
C1_RoundTripWithinTolerance ==
    [][result'.roundtrip =>
          /\ result'.err = NoError
          /\ SameButAngles(cam', cam)
          /\ \A k \in 1..3 : Close(cam'.Placement.Rotation.Axis[k],
                                   cam.Placement.Rotation.Axis[k])
          /\ Close(cam'.Placement.Rotation.Angle, cam.Placement.Rotation.Angle)
          /\ cam'.Projection = "Perspective" =>
                 Close(cam'.HeightAngle, cam.HeightAngle)]_vars

\* a perspective record set from a text came back from its own text
C1_Witness ==
    /\ result.roundtrip
    /\ result.err = NoError
    /\ cam.Projection = "Perspective"
    /\ cam.FocalDistance = Float(5)

\* C2: the record's Projection is Perspective or Orthographic and its
\* ViewportMapping is one of the five values of VIEWPORTMAPPINGENUM, after
\* any calls of set_cam_from_coin_string on a record built from the defaults
\* or by get_cam_from_coin_string.
C2_RecordInvariant ==
    /\ "Projection" \in cam.attrs => cam.Projection \in PROJECTIONS
    /\ "ViewportMapping" \in cam.attrs => cam.ViewportMapping \in ViewportMappings

\* C3: a text whose first token is not PerspectiveCamera or
\* OrthographicCamera is rejected with a format error.
C3_HeaderRejected ==
    (Parsed /\ ParsedData # <<>> /\ ParsedData[1][1] \notin CameraHeaders)
        => FormatError(result.err)

\* the first of position, orientation, focalDistance that the text lacks
Required == <<"position", "orientation", "focalDistance">>

LacksRequired(camdata) == \E k \in 1..3 : ~HasKey(camdata, Required[k])

FirstAbsent(camdata) ==
    Required[CHOOSE k \in 1..3 :
                 /\ ~HasKey(camdata, Required[k])
                 /\ \A j \in 1..(k - 1) : HasKey(camdata, Required[j])]

\* the required fields before the given one have the values they need: three
\* numbers for position, four for orientation
EarlierWellFormed(camdata, key) ==
    /\ key # "position" => WellFormed(camdata, "position", 3)
    /\ key = "focalDistance" => WellFormed(camdata, "orientation", 4)

\* C4 as stated: a text with a valid header that lacks a required field fails
\* with the missing-field ValueError naming the first absent field.
C4_FirstAbsentNamed ==
    (Parsed /\ ValidHeader(ParsedData) /\ LacksRequired(ParsedData))
        => result.err = MissingField(KeyError(FirstAbsent(ParsedData)))

\* C4 amended: a text with a valid header that lacks a required field fails
\* with the missing-field ValueError naming the first absent field, provided
\* the required fields before it are well formed.
C4_FirstAbsentNamedWhenEarlierWellFormed ==
    (/\ Parsed /\ ValidHeader(ParsedData) /\ LacksRequired(ParsedData)
     /\ EarlierWellFormed(ParsedData, FirstAbsent(ParsedData)))
        => result.err = MissingField(KeyError(FirstAbsent(ParsedData)))

\* a text without focalDistance, position and orientation well formed, failed
C4_Witness ==
    /\ Parsed /\ ValidHeader(ParsedData)
    /\ LacksRequired(ParsedData)
    /\ FirstAbsent(ParsedData) = "focalDistance"
    /\ EarlierWellFormed(ParsedData, "focalDistance")
    /\ result.err.field = "focalDistance"

\* the height key of the text's header
HeightKey(camdata) ==
    IF camdata[1][1] = "OrthographicCamera" THEN "height" ELSE "heightAngle"

\* every field the text holds reads without an exception, and the required
\* fields are there
PresentFieldsRead(camdata) ==
    LET reads == Reads(camdata)
    IN  /\ \A key \in {"position", "axis", "angle", "focalDistance"} :
               reads[key].err = NoError
        /\ \A key \in {"aspectRatio", "nearDistance", "farDistance", "height",
                       "heightAngle", "viewportMapping"} :
               reads[key].err.type \in {"", "KeyError"}
        /\ reads.viewportMapping.err = NoError =>
               reads.viewportMapping.val \in ViewportMappings

\* C5: an Orthographic text without height, or a Perspective text without
\* heightAngle, fails with the missing-field ValueError naming the field, as
\* a text without position does.
C5_MissingHeightNamed ==
    (/\ Parsed /\ ValidHeader(ParsedData)
     /\ PresentFieldsRead(ParsedData)
     /\ ~HasKey(ParsedData, HeightKey(ParsedData)))
        => result.err = MissingField(KeyError(HeightKey(ParsedData)))

\* C6: a text whose orientation has fewer than four values fails with a
\* format error.
C6_ShortOrientationRejected ==
    (/\ Parsed
     /\ HasKey(ParsedData, "orientation")
     /\ Len(Values(ParsedData, "orientation")) < 4)
        => FormatError(result.err)

\* the text of these camdata omits the key and is a valid camera text otherwise
OmitsOnly(camdata, key) ==
    /\ ValidHeader(camdata)
    /\ PresentFieldsRead(camdata)
    /\ ~HasKey(camdata, key)
    /\ HasKey(camdata, HeightKey(camdata))
    /\ \A other \in {"aspectRatio", "viewportMapping"} \ {key} :
           HasKey(camdata, other)

\* C7: a valid text without aspectRatio parses and sets AspectRatio to 1.0; a
\* valid text without viewportMapping parses and sets ViewportMapping to
\* ADJUST_CAMERA.
C7_DefaultsWhenOmitted ==
    /\ (Parsed /\ OmitsOnly(ParsedData, "aspectRatio"))
           => (result.err = NoError /\ cam.AspectRatio = Float(1))
    /\ (Parsed /\ OmitsOnly(ParsedData, "viewportMapping"))
           => (result.err = NoError /\ cam.ViewportMapping = "ADJUST_CAMERA")

\* the record a parsing call works on, given the caller's record
Target(op, c) ==
    IF op = "set_cam_from_coin_string" THEN c
    ELSE IF op = "get_cam_from_coin_string" THEN EmptyNamespace
    ELSE Created

\* the attribute is as it was in the record the call was made on
Kept(op, before, after, name) ==
    /\ (name \in after.attrs) = (name \in Target(op, before).attrs)
    /\ after[name] = Target(op, before)[name]

\* C8: a parse of a text without nearDistance (farDistance) leaves the
\* record's NearDistance (FarDistance) as it was, 0.0 and 200.0 in a record
\* of default values, and no exception is raised for the missing field.
C8_NearFarKept ==
    [][(/\ result'.op \in ParseOps
        /\ result'.err = NoError \/ result'.op = "set_cam_from_coin_string") =>
          LET camdata == result'.camdata
          IN  /\ ~HasKey(camdata, "nearDistance") =>
                     /\ Kept(result'.op, cam, cam', "NearDistance")
                     /\ result'.err.field # "nearDistance"
              /\ ~HasKey(camdata, "farDistance") =>
                     /\ Kept(result'.op, cam, cam', "FarDistance")
                     /\ result'.err.field # "farDistance"
              /\ (/\ result'.op = "retrieve_legacy_camera"
                  /\ ~HasKey(camdata, "nearDistance")
                  /\ ~HasKey(camdata, "farDistance")) =>
                     (cam'.NearDistance = Zero /\ cam'.FarDistance = Float(200))]_vars

\* a text without near and far distance was parsed into a record that keeps
\* distances set before
C8_Witness ==
    /\ result.op = "set_cam_from_coin_string"
    /\ result.err = NoError
    /\ ~HasKey(ParsedData, "nearDistance")
    /\ ~HasKey(ParsedData, "farDistance")
    /\ cam.NearDistance # Zero
    /\ cam.FarDistance # Float(200)

\* C9: get_coin_string_from_cam fails with the enumeration assertion and
\* returns no text when the record's Projection or ViewportMapping is outside
\* its enumeration, and returns a text only when both are inside.
C9_InvalidEnumRejected ==
    result.op = "get_coin_string_from_cam" =>
        /\ (cam.Projection \notin PROJECTIONS \/ cam.ViewportMapping \notin ViewportMappings)
               => (result.err.type = "AssertionError" /\ result.text = "")
        /\ result.text # "" =>
               /\ result.err = NoError
               /\ cam.Projection \in PROJECTIONS
               /\ cam.ViewportMapping \in ViewportMappings

\* a record with a mapping outside the enumeration was refused
C9_Witness ==
    /\ result.op = "get_coin_string_from_cam"
    /\ cam.ViewportMapping \notin ViewportMappings
    /\ result.err = AssertionError("Invalid ViewportMapping value")

\* the first tokens of the lines of a text
Keys(text) ==
    LET camdata == CamData(text)
    IN  List([k \in 1..Len(camdata) |-> camdata[k][1]])

\* the field keys a text of the record's projection holds, in order
FieldOrder(c) ==
    <<"viewportMapping", "position", "orientation", "nearDistance", "farDistance",
      "aspectRatio", "focalDistance">>
        \o (IF c.Projection = "Orthographic" THEN <<"height">> ELSE <<>>)
        \o (IF c.Projection = "Perspective" THEN <<"heightAngle">> ELSE <<>>)

\* C10: between the header line and the closing line the text holds the
\* field lines once each in the order viewportMapping, position, orientation,
\* nearDistance, farDistance, aspectRatio, focalDistance, then height for an
\* Orthographic and heightAngle for a Perspective record.
C10_FieldOrder ==
    Serialized =>
        LET keys == Keys(result.text)
        IN  /\ Len(keys) = Len(FieldOrder(cam)) + 2
            /\ SubSeq(keys, 2, Len(keys) - 1) = FieldOrder(cam)
            /\ Len(FieldOrder(cam)) = 8

\* texts of both projections were made
C10_Witness ==
    /\ Serialized
    /\ cam.Projection = "Orthographic"
    /\ cam.NearDistance # Zero

\* the lines of a text that are not empty
TextLines(text) == SelectSeq(SplitLines(text), LAMBDA line : line # "")

\* C11: the text get_coin_string_from_cam returns is the comment line
\* "#Inventor V2.1 ascii", then a block opened by the line
\* "<Projection>Camera {" and closed by a line that is exactly "}", in both
\* versions of the serializer.
C11_TextGrammar ==
    Serialized =>
        LET lines == TextLines(result.text)
        IN  /\ Len(lines) >= 3
            /\ lines[1] = "#Inventor V2.1 ascii"
            /\ lines[2] = cam.Projection \o "Camera {"
            /\ lines[Len(lines)] = "}"

\* the last call of render has returned
Rendered == call.op = "render" /\ call.pc = "returned"

\* C12: with an empty CyclesPath render prints the configuration error,
\* returns "" and starts no process, whatever its arguments are.
C12_NoPathNoProcess ==
    params.CyclesPath = "" =>
        /\ process = <<>>
        /\ ~AtSystem
        /\ Rendered =>
               /\ call.ret = ""
               /\ console = <<[level |-> "Error", text |-> UnableToLocate]>>

\* render returned without a renderer path, called for the external viewer
\* with a prefix
C12_Witness ==
    /\ Rendered
    /\ params.CyclesPath = ""
    /\ params.CyclesParameters # ""
    /\ call.args.external
    /\ call.args.prefix # ""
    /\ call.ret = ""

\* the words of the command the last render call started
CommandWords == SplitWords(process[Len(process)].cmd)

\* C13: with a CyclesPath the command is, in this order, the prefix if there
\* is one, the path, the CyclesParameters, --output and the output,
\* --background if and only if external is false, --width and the width,
\* --height and the height, and the scene file.
C13_CommandOrder ==
    (call.op = "render" /\ params.CyclesPath # "") =>
        /\ process # <<>>
        /\ CommandWords =
               SplitWords(params.Prefix) \o <<params.CyclesPath>>
                   \o SplitWords(params.CyclesParameters)
                   \o <<"--output", call.args.output>>
                   \o (IF call.args.external THEN <<>> ELSE <<"--background">>)
                   \o <<"--width", ToString(call.args.width),
                        "--height", ToString(call.args.height),
                        call.args.project.PageResult>>

\* a command with prefix, parameters and --background was started
C13_Witness ==
    /\ call.op = "render"
    /\ params.Prefix # "" /\ params.CyclesPath # "" /\ params.CyclesParameters # ""
    /\ ~call.args.external
    /\ Len(CommandWords) = 12

\* C14: with a CyclesPath render starts one process, returns only when that
\* process has ended, and returns the output it was given, whatever the exit
\* status is.
C14_OneProcessThenOutput ==
    (call.op = "render" /\ params.CyclesPath # "") =>
        /\ Len(process) = 1
        /\ Rendered =>
               /\ process[1].state = "exited"
               /\ call.ret = call.args.output

\* render returned the output after the process failed
C14_Witness ==
    /\ Rendered
    /\ params.CyclesPath # ""
    /\ process[1].state = "exited" /\ process[1].status # 0
    /\ call.ret = call.args.output

\* C15: the command render runs starts with the prefix given as its prefix
\* argument, before the renderer path.
C15_PrefixArgumentUsed ==
    (call.op = "render" /\ process # <<>>) =>
        LET given == SplitWords(call.args.prefix)
        IN  /\ Len(CommandWords) > Len(given)
            /\ SubSeq(CommandWords, 1, Len(given)) = given
            /\ CommandWords[Len(given) + 1] = params.CyclesPath

\* where pat begins in s, in increasing order
Occurrences(s, pat) ==
    IF Len(s) < Len(pat) THEN <<>>
    ELSE SelectSeq([i \in 1..(Len(s) - Len(pat) + 1) |-> i],
                   LAMBDA i : SubSeq(s, i, i + Len(pat) - 1) = pat)

\* the text from position from up to the next double quote
UpToQuote(text, from) ==
    LET quotes == SelectSeq(Positions(text, {"\""}), LAMBDA i : i >= from)
    IN  SubSeq(text, from, quotes[1] - 1)

\* the values of the attributes of the given name in an XML text, in order
AttributeValues(text, name) ==
    LET pat == " " \o name \o "=\""
        at  == Occurrences(text, pat)
    IN  List([k \in 1..Len(at) |-> UpToQuote(text, at[k] + Len(pat))])

\* the numbers of an attribute value, separated by blanks or commas
Numbers(value) ==
    LET words == Words(value, <<0>> \o Positions(value, {" ", ","}) \o <<Len(value) + 1>>)
    IN  List([k \in 1..Len(words) |-> ParseFloat(words[k]).val])

\* a float in thousandths, rounded
Milli(x) ==
    IF x.e + 3 >= 0 THEN x.m * Pow10(x.e + 3)
    ELSE Sign(x.m) * RoundDiv(Abs(x.m), Pow10(-(x.e + 3)))

\* a vector in thousandths
MilliVector(v) == List([k \in 1..Len(v) |-> Milli(v[k])])

\* the last call was the given write function and returned a text
Wrote(op) == call.op = op /\ call.pc = "returned" /\ call.err = NoError

\* the shader of the text is diffuse bsdf -> output surface
TwoNodeShader(text, n) ==
    /\ Len(Occurrences(text, "<diffuse_bsdf ")) = 1
    /\ Occurrences(text, "transparent_bsdf") = <<>>
    /\ Occurrences(text, "mix_closure") = <<>>
    /\ AttributeValues(text, "from") = <<n \o "_bsdf bsdf">>
    /\ AttributeValues(text, "to") = <<"output surface">>

\* the shader of the text is diffuse and transparent bsdf mixed by a mix
\* closure of the given factor -> output surface
FourNodeShader(text, n, fac) ==
    /\ Len(Occurrences(text, "<diffuse_bsdf ")) = 1
    /\ Len(Occurrences(text, "<transparent_bsdf ")) = 1
    /\ Len(Occurrences(text, "<mix_closure ")) = 1
    /\ Len(AttributeValues(text, "fac")) = 1
    /\ Numbers(AttributeValues(text, "fac")[1]) = <<fac>>
    /\ AttributeValues(text, "from")
           = <<n \o "_trans bsdf", n \o "_bsdf bsdf", n \o "_mix closure">>
    /\ AttributeValues(text, "to")
           = <<n \o "_mix closure1", n \o "_mix closure2", "output surface">>

\* C16: write_object with alpha 1.0 writes the two-node shader, without any
\* transparent_bsdf or mix_closure; with 0 <= alpha < 1.0 it writes the
\* four-node shader whose mix factor is alpha; never both, never neither.
C16_ShaderByAlpha ==
    (Wrote("write_object") /\ 0 <= Milli(call.args.alpha)
                           /\ Milli(call.args.alpha) <= 1000) =>
        /\ call.args.alpha = Float(1) =>
               /\ TwoNodeShader(call.ret, call.args.name)
               /\ ~FourNodeShader(call.ret, call.args.name, call.args.alpha)
        /\ call.args.alpha # Float(1) =>
               /\ FourNodeShader(call.ret, call.args.name, call.args.alpha)
               /\ ~TwoNodeShader(call.ret, call.args.name)

\* an object just short of opaque was written with the mix closure
C16_Witness ==
    /\ Wrote("write_object")
    /\ call.args.alpha = FloatOf(999, 1000)
    /\ Len(Occurrences(call.ret, "<mix_closure ")) = 1

\* d, in thousandths, is the unit vector of the direction of a, in thousandths
UnitVectorOf(d, a) ==
    /\ Abs(d[1] * d[1] + d[2] * d[2] + d[3] * d[3] - 1000000) <= 10000
    /\ \A i, j \in 1..3 :
           Abs(d[i] * a[j] - d[j] * a[i]) <= 3 * (Abs(a[i]) + Abs(a[j]))
    /\ d[1] * a[1] + d[2] * a[2] + d[3] * a[3] > 0

\* the direction the last call of write_sunskylight was given
GivenDirection == Directions[call.args.direction]

\* C17: write_sunskylight with a null direction raises the assertion's error
\* and returns no text; with another direction it returns a text whose
\* sun_direction is the direction scaled to length one.
C17_SunDirectionNormalized ==
    (call.op = "write_sunskylight") =>
        IF \A k \in 1..3 : GivenDirection[k].m = 0
        THEN call.err.type = "AssertionError" /\ call.ret = ""
        ELSE /\ call.err = NoError
             /\ Len(AttributeValues(call.ret, "sun_direction")) = 1
             /\ LET d == Numbers(AttributeValues(call.ret, "sun_direction")[1])
                IN  /\ Len(d) = 3
                    /\ UnitVectorOf(MilliVector(d), MilliVector(GivenDirection))

\* a sun of a direction of length three was written
C17_Witness ==
    /\ Wrote("write_sunskylight")
    /\ GivenDirection = Vector(FloatOf(-1, 10), Float(2), Float(-2))
    /\ call.ret # ""

\* the images of the X, Y and Z axes under the rotation of the quaternion
\* (x, y, z, w) in thousandths, each times the quaternion's squared norm
RotatedAxes(q) ==
    LET x == q[1]
        y == q[2]
        z == q[3]
        w == q[4]
    IN  <<<<w * w + x * x - y * y - z * z, 2 * (x * y + z * w), 2 * (x * z - y * w)>>,
          <<2 * (x * y - z * w), w * w - x * x + y * y - z * z, 2 * (y * z + x * w)>>,
          <<2 * (x * z + y * w), 2 * (y * z - x * w), w * w - x * x - y * y + z * z>>>>

\* v, in thousandths, is within five thousandths of the vector num / norm
NearQuotient(v, num, norm) ==
    \A k \in 1..3 : Abs(v[k] * norm - 1000 * num[k]) <= 5 * norm

\* the vector of the one attribute of that name in the text, in thousandths
VectorAttribute(text, name) == MilliVector(Numbers(AttributeValues(text, name)[1]))

\* C18: write_arealight writes as axisu the X axis rotated by the light's
\* orientation, as axisv the Y axis rotated by it and as dir their cross
\* product axisu x axisv, which is the rotated Z axis; for the identity
\* orientation these are (1,0,0), (0,1,0) and (0,0,1).
C18_AreaLightAxes ==
    Wrote("write_arealight") =>
        LET q     == MilliVector(call.args.pos.Rotation.Q)
            norm  == q[1] * q[1] + q[2] * q[2] + q[3] * q[3] + q[4] * q[4]
            axes  == RotatedAxes(q)
            axisu == VectorAttribute(call.ret, "axisu")
            axisv == VectorAttribute(call.ret, "axisv")
            dir   == VectorAttribute(call.ret, "dir")
        IN  /\ Len(axisu) = 3 /\ Len(axisv) = 3 /\ Len(dir) = 3
            /\ NearQuotient(axisu, axes[1], norm)
            /\ NearQuotient(axisv, axes[2], norm)
            /\ NearQuotient(dir, axes[3], norm)
            /\ q = <<0, 0, 0, 1000>> =>
                   /\ axisu = <<1000, 0, 0>>
                   /\ axisv = <<0, 1000, 0>>
                   /\ dir = <<0, 0, 1000>>

\* an area light turned about the Y axis by an angle that is no multiple of a
\* quarter turn was written
C18_Witness ==
    /\ Wrote("write_arealight")
    /\ call.args.pos.Rotation.Q = <<Zero, FloatOf(6, 10), Zero, FloatOf(8, 10)>>
    /\ VectorAttribute(call.ret, "dir") = <<960, 0, 280>>

\* a float with its exponent raised by two
Hundredfold(x) == IF x.m = 0 THEN x ELSE [m |-> x.m, e |-> x.e + 2]

\* C19: write_pointlight writes as the emission's strength the power times
\* 100, and as the light's strength "1 1 1".
C19_PointLightStrength ==
    Wrote("write_pointlight") =>
        LET strength == AttributeValues(call.ret, "strength")
        IN  /\ Len(strength) = 2
            /\ ParseFloat(strength[1]).ok
            /\ Strip(ParseFloat(strength[1]).val) = Strip(Hundredfold(call.args.power))
            /\ strength[2] = "1 1 1"

\* a light of power 0.07 was written with strength 7.0
C19_Witness ==
    /\ Wrote("write_pointlight")
    /\ call.args.power = FloatOf(7, 100)
    /\ AttributeValues(call.ret, "strength")[1] = "7.0"

\* the write functions
WriteOps ==
    {"write_object", "write_camera", "write_pointlight", "write_arealight",
     "write_sunskylight"}

\* what the call gives when it is the only one made on the caller's objects
Alone(op, args) ==
    IF op = "write_object"
    THEN [err |-> NoError,
          text |-> write_object(args.name, args.mesh, args.color, args.alpha)]
    ELSE IF op = "write_camera"
    THEN [err |-> NoError,
          text |-> write_camera(args.name, args.pos, args.updir, args.target)]
    ELSE IF op = "write_pointlight"
    THEN [err |-> NoError,
          text |-> write_pointlight(args.name, args.pos, args.color, args.power)]
    ELSE IF op = "write_arealight"
    THEN [err |-> NoError,
          text |-> write_arealight(args.name, args.pos, args.size_u, args.size_v,
                                   args.color, args.power)]
    ELSE LET r == write_sunskylight(Directions, args.name, args.direction,
                                    args.distance, args.turbidity)
         IN  [err |-> r.err, text |-> r.text]

\* C20: a call of a write function leaves the caller's objects, the direction
\* vector of write_sunskylight among them, and every other state as they
\* were, and in any sequence of calls each call gives what it gives alone on
\* the same arguments.
C20_WritePure ==
    [][call'.op \in WriteOps =>
          /\ scene' = scene
          /\ UNCHANGED <<camera, params, console, process>>
          /\ call'.err = Alone(call'.op, call'.args).err
          /\ call'.ret = Alone(call'.op, call'.args).text]_vars

\* a sun was written from a direction that is not of length one, and the
\* caller's vectors are as they were
C20_Witness ==
    /\ Wrote("write_sunskylight")
    /\ GivenDirection = Vector(Float(3), Float(4), Zero)
    /\ scene = Directions
    /\ VectorAttribute(call.ret, "sun_direction") = <<600, 800, 0>>

\* the line holds no token: nothing but whitespace stands before its end or
\* its first #
Blank(line) ==
    \E n \in 0..Len(line) :
        /\ n = Len(line) \/ Char(line, n + 1) \in Commenters
        /\ \A i \in 1..n : Char(line, i) \in Whitespace

\* the lines of a text that hold a token, in their order
Remaining(text) == SelectSeq(SplitLines(text), LAMBDA line : ~Blank(line))

\* the tokens of each remaining line of a text
Tokens(text) ==
    Let(Remaining(text),
        LAMBDA lines : List([k \in 1..Len(lines) |-> ShlexSplit(lines[k])]))

\* a remaining line has the key as its first token
Occurs(tokens, key) == \E k \in 1..Len(tokens) : tokens[k][1] = key

\* the tokens after the key, on the last line whose first token is the key
LastValues(tokens, key) ==
    Tail(tokens[CHOOSE k \in 1..Len(tokens) :
                    /\ tokens[k][1] = key
                    /\ \A j \in (k + 1)..Len(tokens) : tokens[j][1] # key])

\* the first line and, of the others, those whose key no later line holds
LastOccurrences(tokens) ==
    SelectSeq(List([k \in 1..Len(tokens) |->
                        IF \/ k = 1
                           \/ \A j \in (k + 1)..Len(tokens) : tokens[j][1] # tokens[k][1]
                        THEN tokens[k] ELSE <<>>]),
              LAMBDA y : y # <<>>)

\* the keys stored as one number, with the attribute each one sets
NumberKeys ==
    [focalDistance |-> "FocalDistance", aspectRatio |-> "AspectRatio",
     nearDistance |-> "NearDistance", farDistance |-> "FarDistance"]

\* the values stored by a parse that succeeded are those of the last line of
\* each key, and the projection is that of the first remaining line
LastStored(c, tokens) ==
    /\ c.Projection = StripLast6(tokens[1][1])
    /\ \A key \in DOMAIN NumberKeys :
           Occurs(tokens, key) =>
               c[NumberKeys[key]] = ParseFloat(LastValues(tokens, key)[1]).val
    /\ \A values \in {LastValues(tokens, "position")} :
           c.Placement.Base = [k \in 1..3 |-> ParseFloat(values[k]).val]

\* C21: the lines without a token are discarded and each remaining line gives
\* one entry whose key is its first token; a parse that succeeds stores, for a
\* key held by several lines, the values of its last line, and takes the
\* projection from the first remaining line; and a text with repeated keys is
\* parsed exactly as its first line and the last line of each key would be.
C21_LastOccurrenceWins ==
    [][result'.op \in ParseOps =>
          \A tokens \in {Tokens(result'.camstr)} :
              /\ Len(result'.camdata) = Len(tokens)
              /\ \A k \in 1..Len(tokens) : result'.camdata[k][1] = tokens[k][1]
              /\ result'.err = NoError => LastStored(cam', tokens)
              /\ (result'.op = "set_cam_from_coin_string" /\ tokens # <<>>) =>
                     set_cam_from_coin_string(cam, LastOccurrences(tokens))
                         = [cam |-> cam', err |-> result'.err]]_vars

\* a text that holds focalDistance on two lines, the first one with a value
\* that is no number, and lines without a token, was parsed: the record holds
\* the value of the second line
C21_Witness ==
    /\ result.op = "set_cam_from_coin_string"
    /\ result.err = NoError
    /\ LET lines == Remaining(result.camstr)
       IN  /\ Len(lines) < Len(SplitLines(result.camstr))
           /\ \E j, k \in 1..Len(lines) :
                  /\ j < k
                  /\ ShlexSplit(lines[j]) = <<"focalDistance", "x">>
                  /\ ShlexSplit(lines[k]) = <<"focalDistance", "7">>
    /\ cam.FocalDistance = Float(7)

\* C22: when set_cam_from_coin_string raises, every field of the record it
\* was called on has the value it had before the call.
C22_FailedParseAtomic ==
    [][(result'.op = "set_cam_from_coin_string" /\ result'.err # NoError)
           => cam' = cam]_vars

\* C23: the parse of a text without any token fails with a format error, the
\* kind of error an invalid header gives, and with no other kind.
C23_EmptyTextFormatError ==
    (Parsed /\ ParsedData = <<>>) => FormatError(result.err)

====
